---- MODULE Spec2Model ----
(***************************************************************************)
(* AxiosWrapperPro (src/src/index.ts): the request lifecycle of one client *)
(* instance.  The state is the client's _abortControllers map, the         *)
(* AbortControllers it created, and every call to request() with its       *)
(* position in the retry loop.  JavaScript runs each handler to its next   *)
(* await without preemption, so one action is one such run.                *)
(***************************************************************************)
EXTENDS Integers, Sequences, FiniteSets, TLC

\* Bounds of the exploration.
MaxCalls == 2
MaxCount == 2
MaxLen == 2
MaxSets == 2

\* ------------------------------------------------------------------ values

Undefined == "undefined"

\* RequestKey = string | symbol (types.ts).  "sym1" and "sym2" stand for two
\* distinct Symbol() values, "" is the empty string.
StringKeys == {"", "k"}
SymbolKeys == {"sym1", "sym2"}
ExplicitKeys == StringKeys \cup SymbolKeys

\* JavaScript truthiness of a RequestKey: only the empty string is falsy.
Truthy(key) == key # "" /\ key # Undefined

\* Errors a transport invocation can fail with: no response at all, a
\* response with a status, or axios' CanceledError of an aborted signal.
ErrKinds == {"net", "e503", "e404", "cancel"}
status(kind) == IF kind = "e503" THEN 503 ELSE IF kind = "e404" THEN 404 ELSE 0
hasResponse(kind) == kind \in {"e503", "e404"}

isCancel(kind) == kind = "cancel"

\* DEFAULT_RETRY_CONFIG.condition, and two caller-supplied predicates.
Conds == {"default", "always", "never"}
condition(cond, kind) ==
  IF cond = "always" THEN TRUE
  ELSE IF cond = "never" THEN FALSE
  ELSE IF isCancel(kind) THEN FALSE
  ELSE IF ~hasResponse(kind) THEN TRUE
  ELSE status(kind) >= 500

Calls == 1..MaxCalls
Attempts == 0..MaxCount
Counts == (-1)..MaxCount
Handles == Calls \X Attempts

\* ------------------------------------------------------------------ Map

Range(f) == {f[i] : i \in DOMAIN f}

\* A JavaScript Map: entries in insertion order.
MapHas(m, key) == \E i \in 1..Len(m) : m[i].key = key
MapGet(m, key) == m[CHOOSE i \in 1..Len(m) : m[i].key = key].h
MapDelete(m, key) == SelectSeq(m, LAMBDA e : e.key # key)
MapSet(m, key, h) ==
  IF MapHas(m, key)
  THEN [i \in 1..Len(m) |-> IF m[i].key = key THEN [key |-> key, h |-> h] ELSE m[i]]
  ELSE Append(m, [key |-> key, h |-> h])

\* ------------------------------------------------------------------ state

VARIABLES
  _abortControllers,  \* Map<RequestKey, AbortController>, as handles <<call, attempt>>
  controllers,        \* every AbortController: its signal's flag and listeners
  calls,              \* every call to request(): configuration and loop position
  issued,             \* number of calls to request() so far
  dispatched,         \* per call, the response handlers axios took at dispatch
  last,               \* the operation that ran last, and what it returned
  clientOptions,      \* the options the client was constructed with
  _retryConfig,       \* the client's retry configuration
  _interceptorConfig, \* the hooks the caller supplied
  _requestInterceptorId,
  _responseInterceptorId,
  interceptors,       \* _instance.interceptors: the handlers installed in axios
  args,               \* the arguments of a call to _generateRequestKey or
  result              \* _stableStringify, and what it returned

lifecycle == <<_abortControllers, controllers, calls, issued, dispatched>>
client == <<clientOptions, _retryConfig, _interceptorConfig,
            _requestInterceptorId, _responseInterceptorId, interceptors>>
pure == <<args, result>>
vars == <<lifecycle, last, client, pure>>

\* The client's state as one value, for the operators that model its methods.
World == [reg |-> _abortControllers, hs |-> controllers, cs |-> calls, n |-> issued]

NoController ==
  [aborted |-> FALSE, listener |-> FALSE, byKey |-> Undefined, byCall |-> {},
   byOp |-> "none"]
NoOutcome == [type |-> "pending", kind |-> "none", attempt |-> -1]
IdleCall ==
  [pc |-> "idle", requestKey |-> Undefined, configKey |-> Undefined,
   count |-> 0, delay |-> 0, cond |-> "default", reissue |-> FALSE,
   attempt |-> 0, invocations |-> 0, resp |-> "none", errs |-> <<>>,
   outcome |-> NoOutcome, btb |-> {}]

\* ------------------------------------------------------------------ keys

Null == "null"
toUpperCase(s) ==
  IF s = "get" THEN "GET" ELSE IF s = "post" THEN "POST" ELSE s

\* JavaScript values of params and data: tagged, an object as the sequence of
\* its properties in insertion order, an array as the sequence of its items.
JsUndefined == [t |-> "undefined"]
JsNull == [t |-> "null"]
Num(n) == [t |-> "number", n |-> n]
Str(s) == [t |-> "string", s |-> s]
Arr(items) == [t |-> "array", a |-> items]
Obj(props) == [t |-> "object", o |-> props]
Prop(key, value) == [key |-> key, value |-> value]

\* JavaScript truthiness of a value.
truthy(v) ==
  CASE v.t \in {"undefined", "null"} -> FALSE
    [] v.t = "number" -> v.n # 0
    [] v.t = "string" -> v.s # ""
    [] OTHER -> TRUE

\* Array.prototype.join.
RECURSIVE join(_, _)
join(strs, sep) ==
  IF strs = <<>> THEN ""
  ELSE IF Len(strs) = 1 THEN strs[1]
  ELSE strs[1] \o sep \o join(Tail(strs), sep)

\* JSON.stringify of a number or a string (of characters that need no escape).
JSONstringify(v) ==
  IF v.t = "number" THEN ToString(v.n) ELSE "\"" \o v.s \o "\""

\* Property names in the order of their UTF-16 code units ("_" is 0x5F, below
\* the lower-case letters), the order of Array.prototype.sort().
CodeUnitOrder == <<"_t", "a", "b">>

\* Object.keys(obj).sort().
sortedKeys(obj) ==
  SelectSeq(CodeUnitOrder, LAMBDA k : \E i \in 1..Len(obj.o) : obj.o[i].key = k)

\* obj[key] and "key in obj".
hasOwn(obj, key) == \E i \in 1..Len(obj.o) : obj.o[i].key = key
get(obj, key) ==
  IF hasOwn(obj, key)
  THEN obj.o[CHOOSE i \in 1..Len(obj.o) : obj.o[i].key = key].value
  ELSE JsUndefined

\* _stableStringify that keeps the keys in insertion order.
RECURSIVE _stableStringify_Unsorted(_)
_stableStringify_Unsorted(obj) ==
  CASE obj.t \in {"null", "undefined"} -> ""
    [] obj.t = "array" ->
         "[" \o join([i \in 1..Len(obj.a) |-> _stableStringify_Unsorted(obj.a[i])], ",") \o "]"
    [] obj.t = "object" ->
         LET pairs == [i \in 1..Len(obj.o) |->
                         "\"" \o obj.o[i].key \o "\":" \o _stableStringify_Unsorted(obj.o[i].value)]
         IN "{" \o join(pairs, ",") \o "}"
    [] OTHER -> JSONstringify(obj)

RECURSIVE _stableStringify(_)
_stableStringify(obj) ==
  CASE obj.t \in {"null", "undefined"} -> ""
    [] obj.t = "array" ->
         "[" \o join([i \in 1..Len(obj.a) |-> _stableStringify(obj.a[i])], ",") \o "]"
    [] obj.t = "object" ->
         LET keys == sortedKeys(obj)
             pairs == [i \in 1..Len(keys) |->
                         "\"" \o keys[i] \o "\":" \o _stableStringify(get(obj, keys[i]))]
         IN "{" \o join(pairs, ",") \o "}"
    [] OTHER -> JSONstringify(obj)

\* A caller's paramsSerializer: "key=value" joined by "&", in insertion order.
paramsSerializer(params) ==
  join([i \in 1..Len(params.o) |->
          params.o[i].key \o "=" \o _stableStringify(params.o[i].value)], "&")

\* The client is constructed without options.paramsSerializer.
_paramsSerializer == Undefined

\* delete params._t.
deleteT(params) == Obj(SelectSeq(params.o, LAMBDA p : p.key # "_t"))

_generateRequestKey(config) ==
  LET method == toUpperCase(IF config.method = "" THEN "GET" ELSE config.method)
      url == config.url
      clone == IF truthy(config.params) THEN config.params ELSE JsNull
      params == IF truthy(clone) /\ truthy(get(clone, "_t")) THEN deleteT(clone) ELSE clone
      serializer == IF config.paramsSerializer # Undefined
                    THEN config.paramsSerializer ELSE _paramsSerializer
      paramsStr == IF ~truthy(params) THEN ""
                   ELSE IF serializer # Undefined THEN paramsSerializer(params)
                   ELSE _stableStringify(params)
      dataStr == IF method \in {"POST", "PUT", "PATCH", "DELETE"} /\ truthy(config.data)
                 THEN IF config.data.t = "string" THEN config.data.s
                      ELSE _stableStringify(config.data)
                 ELSE ""
  IN method \o "|" \o url \o "|" \o paramsStr \o "|" \o dataStr

\* Every call of the lifecycle specifications is request("GET", "/u", config).
requestConfig ==
  [method |-> "GET", url |-> "/u", params |-> JsUndefined, data |-> JsUndefined,
   paramsSerializer |-> Undefined]

Keys == ExplicitKeys \cup {_generateRequestKey(requestConfig)}

\* ------------------------------------------------------------------ client

\* An optional property: {} when absent, {v} when it holds v.
orEmpty(opt) == IF opt = {} THEN <<>> ELSE CHOOSE v \in opt : TRUE

\* { ...a, ...b }: the properties of b over those of a.
spread(a, b) ==
  [f \in DOMAIN a \cup DOMAIN b |-> IF f \in DOMAIN b THEN b[f] ELSE a[f]]

NoOptions == [retry |-> {}, interceptors |-> {}]

DEFAULT_RETRY_CONFIG == [count |-> 0, delay |-> 1000, condition |-> "default"]

\* this._retryConfig = { ...DEFAULT_RETRY_CONFIG, ...(options?.retry || {}) }.
constructorRetryConfig(options) == spread(DEFAULT_RETRY_CONFIG, orEmpty(options.retry))

\* request() that lets the client's configuration override the call's.
requestRetryConfig_InstanceWins(instanceConfig, retry) ==
  spread(orEmpty(retry), instanceConfig)

\* const retryConfig = { ...this._retryConfig, ...(retry || {}) }.
requestRetryConfig(instanceConfig, retry) == spread(instanceConfig, orEmpty(retry))

\* The hooks of DEFAULT_INTERCEPTOR, and isFunction of a hook.
DEFAULT_INTERCEPTOR ==
  [request |-> "DEFAULT.request", requestError |-> "DEFAULT.requestError",
   response |-> "DEFAULT.response", responseError |-> "DEFAULT.responseError"]
isFunction(f) == f # Undefined

_getInterceptors(config) ==
  [f \in DOMAIN DEFAULT_INTERCEPTOR |->
     IF f \in DOMAIN config /\ isFunction(config[f]) THEN config[f]
     ELSE DEFAULT_INTERCEPTOR[f]]

\* axios' InterceptorManager: use() appends a handler and returns its index,
\* eject() empties the slot.  A slot is {} or {handler}.
NoInterceptors == [request |-> <<>>, response |-> <<>>]
interceptorsUse(mgrs, side, handler) ==
  [interceptors |-> [mgrs EXCEPT ![side] = Append(mgrs[side], {handler})],
   id |-> Len(mgrs[side])]
interceptorsEject(mgrs, side, id) ==
  IF id + 1 \in DOMAIN mgrs[side] THEN [mgrs EXCEPT ![side][id + 1] = {}] ELSE mgrs

\* The handlers _initRequestInterceptors and _initResponseInterceptors install:
\* the request hooks themselves, and the cleanup closure over the response
\* hooks it read when it was installed.
requestHandler(config) ==
  [fulfilled |-> _getInterceptors(config).request,
   rejected |-> _getInterceptors(config).requestError]
responseHandler(config) ==
  [cleanup |-> TRUE,
   fulfilled |-> _getInterceptors(config).response,
   rejected |-> _getInterceptors(config).responseError]

\* The client's interceptor state as one value.
Hooks ==
  [config |-> _interceptorConfig, requestId |-> _requestInterceptorId,
   responseId |-> _responseInterceptorId, installed |-> interceptors]

setRequestInterceptor(k, interceptor, errorInterceptor) ==
  LET ejected == interceptorsEject(k.installed, "request", k.requestId)
      config == spread(k.config, [request |-> interceptor,
                                  requestError |-> errorInterceptor])
      use == interceptorsUse(ejected, "request", requestHandler(config))
  IN [k EXCEPT !.config = config, !.requestId = use.id, !.installed = use.interceptors]

\* setResponseInterceptor that leaves the old handler installed.
setResponseInterceptor_NoEject(k, interceptor, errorInterceptor) ==
  LET config == spread(k.config, [response |-> interceptor,
                                  responseError |-> errorInterceptor])
      use == interceptorsUse(k.installed, "response", responseHandler(config))
  IN [k EXCEPT !.config = config, !.responseId = use.id, !.installed = use.interceptors]

setResponseInterceptor(k, interceptor, errorInterceptor) ==
  LET ejected == interceptorsEject(k.installed, "response", k.responseId)
      config == spread(k.config, [response |-> interceptor,
                                  responseError |-> errorInterceptor])
      use == interceptorsUse(ejected, "response", responseHandler(config))
  IN [k EXCEPT !.config = config, !.responseId = use.id, !.installed = use.interceptors]

\* ------------------------------------------------------------------ methods

RECURSIVE abort(_, _, _), cancelRequest(_, _, _), _setupAbortController(_, _),
          tryAttempt(_, _), retryLoop(_, _), request(_, _, _)

\* AbortController.abort(): the first call sets the signal's flag and runs its
\* abort listeners synchronously; later calls do nothing.  A listener of the
\* model issues the aborted call again, under the same key and options.
abort(w, h, by) ==
  IF w.hs[h].aborted THEN w
  ELSE LET w1 == [w EXCEPT !.hs[h].aborted = TRUE, !.hs[h].byKey = by.key,
                           !.hs[h].byCall = by.call, !.hs[h].byOp = by.op]
           parent == w.cs[h[1]]
       IN IF w.hs[h].listener /\ w1.n < MaxCalls
          THEN request(w1, w1.n + 1,
                       [requestKey |-> parent.requestKey, count |-> parent.count,
                        delay |-> parent.delay, cond |-> parent.cond,
                        reissue |-> parent.reissue])
          ELSE w1

\* cancelRequest that forgets to abort the controller it removes.
cancelRequest_NoAbort(w, key, by) ==
  IF MapHas(w.reg, key) THEN [w EXCEPT !.reg = MapDelete(w.reg, key)] ELSE w

\* cancelRequest that takes the oldest entry of the map instead of the key's.
cancelRequest_OldestEntry(w, key, by) ==
  IF w.reg # <<>>
  THEN LET w1 == abort(w, w.reg[1].h, by)
       IN [w1 EXCEPT !.reg = MapDelete(w1.reg, w.reg[1].key)]
  ELSE w

\* cancelRequest (index.ts:225): the registry after the call.
cancelRequest(w, key, by) ==
  IF MapHas(w.reg, key)
  THEN LET w1 == abort(w, MapGet(w.reg, key), by)
       IN [w1 EXCEPT !.reg = MapDelete(w1.reg, key)]
  ELSE w

\* cancelRequest that returns true whether or not it found a controller.
cancelRequestResult_AlwaysTrue(w, key) == TRUE

\* What cancelRequest returns.
cancelRequestResult(w, key) == MapHas(w.reg, key)

\* _setupAbortController that stores the new controller without cancelling
\* the request that holds the key.
_setupAbortController_NoCancel(w, c) ==
  [w EXCEPT !.reg = MapSet(w.reg, w.cs[c].configKey, <<c, w.cs[c].attempt>>)]

\* _setupAbortController (index.ts:149) for the current attempt of call c.
_setupAbortController(w, c) ==
  LET key == w.cs[c].configKey
      w1 == cancelRequest(w, key, [op |-> "register", key |-> key, call |-> {c}])
      controller == <<c, w1.cs[c].attempt>>
  IN [w1 EXCEPT !.reg = MapSet(w1.reg, key, controller)]

\* The try block of the retry loop up to its await (index.ts:315-325).
tryAttempt(w, c) ==
  LET w1 == IF w.cs[c].attempt > 0
            THEN [w EXCEPT !.reg = MapDelete(w.reg, w.cs[c].configKey)]
            ELSE w
      w2 == _setupAbortController(w1, c)
  IN [w2 EXCEPT !.cs[c].pc = "inflight",
                !.cs[c].invocations = w2.cs[c].invocations + 1]

\* Promise.reject(lastError) (index.ts:348).
lastError(call) ==
  IF call.errs = <<>>
  THEN [type |-> "rejected", kind |-> Null, attempt |-> -1]
  ELSE [type |-> "rejected", kind |-> call.errs[Len(call.errs)],
        attempt |-> Len(call.errs) - 1]

reject(w, c) ==
  [w EXCEPT !.cs[c].pc = "done", !.cs[c].outcome = lastError(w.cs[c])]

\* The loop head with an off-by-one bound.
retryLoop_OneMore(w, c) ==
  IF w.cs[c].attempt <= w.cs[c].count + 1 THEN tryAttempt(w, c) ELSE reject(w, c)

\* The head of the for loop (index.ts:314).
retryLoop(w, c) ==
  IF w.cs[c].attempt <= w.cs[c].count THEN tryAttempt(w, c) ELSE reject(w, c)

\* request() from its entry to its first await (index.ts:298-325).
request(w, c, options) ==
  LET configKey == IF options.requestKey # Undefined
                   THEN options.requestKey
                   ELSE _generateRequestKey(requestConfig)
      w1 == [w EXCEPT !.n = c,
                      !.cs[c] = [IdleCall EXCEPT
                                   !.pc = "running",
                                   !.requestKey = options.requestKey,
                                   !.configKey = configKey,
                                   !.count = options.count,
                                   !.delay = options.delay,
                                   !.cond = options.cond,
                                   !.reissue = options.reissue]]
  IN retryLoop(w1, c)

\* The response interceptors of _initResponseInterceptors (index.ts:90-105):
\* both drop the entry of the key saved in the configuration, if it is truthy.
responseInterceptor(w, c) ==
  LET key == w.cs[c].configKey
  IN IF Truthy(key) THEN [w EXCEPT !.reg = MapDelete(w.reg, key)] ELSE w

\* axios runs the response handlers it took at dispatch, in order, skipping
\* ejected slots: each handler of _initResponseInterceptors drops the entry of
\* the saved key and then calls the hook it closed over.  hooks lists the hooks
\* called, each with whether the key still had its entry at that moment.
RECURSIVE responseChain(_, _, _, _, _)
responseChain(w, c, r, chain, hooks) ==
  IF chain = <<>> THEN [w |-> w, hooks |-> hooks]
  ELSE IF Head(chain) = {} THEN responseChain(w, c, r, Tail(chain), hooks)
  ELSE LET handler == CHOOSE h \in Head(chain) : TRUE
           w1 == IF handler.cleanup THEN responseInterceptor(w, c) ELSE w
           hook == IF r = "ok" THEN handler.fulfilled ELSE handler.rejected
       IN responseChain(w1, c, r, Tail(chain),
                        Append(hooks, [hook |-> hook,
                                       entry |-> MapHas(w1.reg, w.cs[c].configKey)]))

\* The success return that drops the result and lets the loop go on.
returnResult_KeepLooping(w, c) ==
  retryLoop([w EXCEPT !.cs[c].resp = "none", !.cs[c].attempt = w.cs[c].attempt + 1], c)

\* return result (index.ts:325-326): the call resolves with the result of the
\* attempt that succeeded.
returnResult(w, c) ==
  [w EXCEPT !.cs[c].pc = "done", !.cs[c].resp = "none",
            !.cs[c].outcome = [type |-> "resolved", kind |-> "ok",
                               attempt |-> w.cs[c].attempt]]

\* The catch block that awaits the cancelled invocation again.
catch_AwaitAgain(w, c, kind) ==
  IF isCancel(kind)
  THEN [w EXCEPT !.cs[c].pc = "inflight", !.cs[c].resp = "none"]
  ELSE reject([w EXCEPT !.cs[c].errs = Append(w.cs[c].errs, kind),
                        !.cs[c].resp = "none"], c)

\* The catch block without the isCancelled test.
catch_RetryCancelled(w, c, kind) ==
  LET call == w.cs[c]
      w1 == [w EXCEPT !.cs[c].errs = Append(call.errs, kind),
                      !.cs[c].resp = "none",
                      !.reg = MapDelete(w.reg, call.configKey)]
  IN IF call.attempt = call.count \/ ~condition(call.cond, kind)
     THEN reject(w1, c)
     ELSE IF call.delay > 0
     THEN [w1 EXCEPT !.cs[c].pc = "sleeping"]
     ELSE retryLoop([w1 EXCEPT !.cs[c].attempt = call.attempt + 1], c)

\* The catch block without the shouldRetry test.
catch_IgnoreCondition(w, c, kind) ==
  LET call == w.cs[c]
      w1 == [w EXCEPT !.cs[c].errs = Append(call.errs, kind),
                      !.cs[c].resp = "none",
                      !.reg = MapDelete(w.reg, call.configKey)]
  IN IF call.attempt = call.count \/ isCancel(kind)
     THEN reject(w1, c)
     ELSE IF call.delay > 0
     THEN [w1 EXCEPT !.cs[c].pc = "sleeping"]
     ELSE retryLoop([w1 EXCEPT !.cs[c].attempt = call.attempt + 1], c)

\* The catch block (index.ts:327-345) for the error kind the await threw, and
\* the next iteration when the policy allows one without a delay.
catch(w, c, kind) ==
  LET call == w.cs[c]
      w1 == [w EXCEPT !.cs[c].errs = Append(call.errs, kind),
                      !.cs[c].resp = "none",
                      !.reg = MapDelete(w.reg, call.configKey)]
      isLast == call.attempt = call.count
      shouldRetry == condition(call.cond, kind)
      isCancelled == isCancel(kind)
  IN IF isLast \/ ~shouldRetry \/ isCancelled
     THEN reject(w1, c)
     ELSE IF call.delay > 0
     THEN [w1 EXCEPT !.cs[c].pc = "sleeping"]
     ELSE retryLoop([w1 EXCEPT !.cs[c].attempt = call.attempt + 1], c)

\* Map.forEach over the live map: entries in insertion order, entries added
\* during the iteration included, no entry twice.
RECURSIVE forEachAbort(_, _)
forEachAbort(w, visited) ==
  LET rest == SelectSeq(w.reg, LAMBDA e : e.h \notin visited)
  IN IF rest = <<>> THEN w
     ELSE LET e == Head(rest)
          IN forEachAbort(
               abort(w, e.h, [op |-> "cancelAllRequests", key |-> "*", call |-> {}]),
               visited \cup {e.h})

\* cancelAllRequests (index.ts:240): the registry after the call.
cancelAllRequests(w) ==
  LET w1 == forEachAbort(w, {})
  IN [w1 EXCEPT !.reg = <<>>]

\* What cancelAllRequests returns.
cancelAllRequestsResult(w) == Len(w.reg)

\* ------------------------------------------------------------------ actions

Commit(w) ==
  /\ _abortControllers' = w.reg
  /\ controllers' = w.hs
  /\ calls' = w.cs
  /\ issued' = w.n
  /\ dispatched' = [c \in Calls |-> IF w.cs[c].invocations # calls[c].invocations
                                     THEN interceptors.response ELSE dispatched[c]]
  /\ UNCHANGED <<client, pure>>

Op(op, key, c, ret, ok) == [op |-> op, key |-> key, call |-> c, ret |-> ret, ok |-> ok]

\* new AxiosWrapperPro(options).
constructor(options) ==
  /\ _abortControllers = <<>>
  /\ controllers = [h \in Handles |-> NoController]
  /\ calls = [c \in Calls |-> IdleCall]
  /\ issued = 0
  /\ dispatched = [c \in Calls |-> <<>>]
  /\ last = Op("new", Undefined, {}, -1, FALSE)
  /\ clientOptions = options
  /\ _retryConfig = constructorRetryConfig(options)
  /\ _interceptorConfig = orEmpty(options.interceptors)
  /\ LET use == interceptorsUse(NoInterceptors, "request",
                                 requestHandler(orEmpty(options.interceptors)))
     IN LET use2 == interceptorsUse(use.interceptors, "response",
                                    responseHandler(orEmpty(options.interceptors)))
        IN /\ _requestInterceptorId = use.id
           /\ _responseInterceptorId = use2.id
           /\ interceptors = use2.interceptors

\* new AxiosWrapperPro(): options = {}.
Init ==
  /\ constructor(NoOptions)
  /\ args = <<>>
  /\ result = <<>>

Options(KS, CS, DS, PS, RS) ==
  [requestKey : KS, count : CS, delay : DS, cond : PS, reissue : RS]

\* A caller calls request() (or get/post/put/patch/delete).
Request(options) ==
  /\ issued < MaxCalls
  /\ LET c == issued + 1
         w == request(World, c, options)
         backToBack == /\ last.op = "request"
                       /\ options.requestKey \in ExplicitKeys
                       /\ last.key = options.requestKey
                       /\ \A c1 \in last.call : calls[c1].pc = "inflight"
     IN /\ Commit([w EXCEPT !.cs[c].btb = IF backToBack THEN last.call ELSE {}])
        /\ last' = Op("request", w.cs[c].configKey, {c}, -1, FALSE)

\* The request interceptor runs for the current attempt of call c; the hook of
\* a call with reissue adds its abort listener to config.signal.
RequestInterceptor(c) ==
  /\ calls[c].pc = "inflight"
  /\ calls[c].reissue
  /\ ~controllers[<<c, calls[c].attempt>>].listener
  /\ controllers' = [controllers EXCEPT ![<<c, calls[c].attempt>>].listener = TRUE]
  /\ last' = Op("requestInterceptor", calls[c].configKey, {c}, -1, FALSE)
  /\ UNCHANGED <<_abortControllers, calls, issued, dispatched, client, pure>>

\* The transport settles the current attempt of call c with r and the response
\* interceptor runs.  An aborted signal makes the transport fail with a
\* cancellation, and nothing else does.
Respond(c, r) ==
  /\ calls[c].pc = "inflight"
  /\ calls[c].reissue => controllers[<<c, calls[c].attempt>>].listener
  /\ controllers[<<c, calls[c].attempt>>].aborted <=> isCancel(r)
  /\ LET w == responseInterceptor(World, c)
     IN Commit([w EXCEPT !.cs[c].pc = "responded", !.cs[c].resp = r])
  /\ last' = Op("respond", calls[c].configKey, {c}, -1, FALSE)

\* request() resumes after its await: it returns the result or runs the catch
\* block.
Resume(c) ==
  /\ calls[c].pc = "responded"
  /\ IF calls[c].resp = "ok"
     THEN Commit(returnResult(World, c))
     ELSE Commit(catch(World, c, calls[c].resp))
  /\ last' = Op("resume", calls[c].configKey, {c}, -1, FALSE)

\* sleep(retryConfig.delay) elapses and the loop goes to its next iteration.
Wake(c) ==
  /\ calls[c].pc = "sleeping"
  /\ Commit(retryLoop([World EXCEPT !.cs[c].attempt = calls[c].attempt + 1], c))
  /\ last' = Op("wake", calls[c].configKey, {c}, -1, FALSE)

\* A caller calls cancelRequest(key).
CancelRequest(key) ==
  /\ Commit(cancelRequest(World, key, [op |-> "cancelRequest", key |-> key, call |-> {}]))
  /\ last' = Op("cancelRequest", key, {}, -1, cancelRequestResult(World, key))

\* A caller calls cancelAllRequests().
CancelAllRequests ==
  /\ Commit(cancelAllRequests(World))
  /\ last' = Op("cancelAllRequests", "*", {}, cancelAllRequestsResult(World), FALSE)

\* The registry under concurrent calls on two keys, each call with at most
\* one retry.
Next ==
  \/ \E o \in Options({"k", "sym1"}, {0, 1}, {0}, {"always"}, {FALSE}) : Request(o)
  \/ \E c \in Calls, r \in {"ok", "net", "cancel"} : Respond(c, r)
  \/ \E c \in Calls : Resume(c)
  \/ \E key \in {"k", "sym1"} : CancelRequest(key)
  \/ CancelAllRequests

Spec == Init /\ [][Next]_vars

\* The same under two distinct symbols as keys.
NextSymbols ==
  \/ \E o \in Options(SymbolKeys, {0, 1}, {0}, {"always"}, {FALSE}) : Request(o)
  \/ \E c \in Calls, r \in {"ok", "net", "cancel"} : Respond(c, r)
  \/ \E c \in Calls : Resume(c)
  \/ \E key \in SymbolKeys : CancelRequest(key)
  \/ CancelAllRequests

SpecSymbols == Init /\ [][NextSymbols]_vars

\* Every kind of key: the empty string, a string, symbols and the derived key.
NextKeys ==
  \/ \E o \in Options(ExplicitKeys \cup {Undefined}, {0, 1}, {0}, {"always"}, {FALSE}) :
       Request(o)
  \/ \E c \in Calls, r \in {"ok", "net", "cancel"} : Respond(c, r)
  \/ \E c \in Calls : Resume(c)
  \/ \E key \in Keys : CancelRequest(key)
  \/ CancelAllRequests

SpecKeys == Init /\ [][NextKeys]_vars

\* Calls whose request hook adds an abort listener that issues the call again.
NextListener ==
  \/ \E o \in Options({"k", "sym1"}, {0, 1}, {0}, {"always"}, BOOLEAN) : Request(o)
  \/ \E c \in Calls : RequestInterceptor(c)
  \/ \E c \in Calls, r \in {"ok", "net", "cancel"} : Respond(c, r)
  \/ \E c \in Calls : Resume(c)
  \/ \E key \in {"k", "sym1"} : CancelRequest(key)
  \/ CancelAllRequests

SpecListener == Init /\ [][NextListener]_vars

\* The retry loop: one call with any policy among calls that never retry, all
\* under one key, with cancellation.
NeverRetries(call) == call.count = 0 /\ call.delay = 0 /\ call.cond = "default"

NextRetry ==
  \/ \E o \in Options({"k"}, Counts, {0, 1000}, {"default", "always"}, {FALSE}) :
       /\ NeverRetries(o) \/ \A c \in 1..issued : NeverRetries(calls[c])
       /\ Request(o)
  \/ \E c \in Calls, r \in {"ok", "e503", "e404", "cancel"} : Respond(c, r)
  \/ \E c \in Calls : Resume(c)
  \/ \E c \in Calls : Wake(c)
  \/ CancelRequest("k")
  \/ CancelAllRequests

SpecRetry == Init /\ [][NextRetry]_vars

\* Settlement: calls under one key, at most one of them with a retry after a
\* delay, with both cancellations, where the environment keeps its promises:
\* every transport invocation settles (axios rejects an aborted one), the
\* continuation of a settled await runs, and the timer of sleep() fires.
NextSettle ==
  \/ \E o \in Options({"k"}, {0, 1}, {0, 1000}, {"default"}, {FALSE}) :
       /\ \/ NeverRetries(o)
          \/ o.delay > 0 /\ \A c \in 1..issued : NeverRetries(calls[c])
       /\ Request(o)
  \/ \E c \in Calls, r \in {"ok", "e503", "cancel"} : Respond(c, r)
  \/ \E c \in Calls : Resume(c)
  \/ \E c \in Calls : Wake(c)
  \/ CancelRequest("k")
  \/ CancelAllRequests

FairSettle ==
  \A c \in Calls :
    /\ WF_vars(\E r \in {"ok", "e503", "cancel"} : Respond(c, r))
    /\ WF_vars(Resume(c))
    /\ WF_vars(Wake(c))

SpecSettle == Init /\ [][NextSettle]_vars /\ FairSettle

\* Interceptors: the hooks are replaced while calls are dispatched and settle.
SetRequestInterceptor(interceptor, errorInterceptor) ==
  /\ Len(interceptors.request) + Len(interceptors.response) < MaxSets + 2
  /\ LET k == setRequestInterceptor(Hooks, interceptor, errorInterceptor)
     IN /\ _interceptorConfig' = k.config
        /\ _requestInterceptorId' = k.requestId
        /\ _responseInterceptorId' = k.responseId
        /\ interceptors' = k.installed
  /\ last' = Op("setRequestInterceptor", Undefined, {}, -1, FALSE)
              @@ [interceptor |-> interceptor, errorInterceptor |-> errorInterceptor]
  /\ UNCHANGED <<lifecycle, clientOptions, _retryConfig, pure>>

SetResponseInterceptor(interceptor, errorInterceptor) ==
  /\ Len(interceptors.request) + Len(interceptors.response) < MaxSets + 2
  /\ LET k == setResponseInterceptor(Hooks, interceptor, errorInterceptor)
     IN /\ _interceptorConfig' = k.config
        /\ _requestInterceptorId' = k.requestId
        /\ _responseInterceptorId' = k.responseId
        /\ interceptors' = k.installed
  /\ last' = Op("setResponseInterceptor", Undefined, {}, -1, FALSE)
              @@ [interceptor |-> interceptor, errorInterceptor |-> errorInterceptor]
  /\ UNCHANGED <<lifecycle, clientOptions, _retryConfig, pure>>

\* The transport settles the current attempt of call c with r and axios runs
\* the response handlers of the invocation.
RespondInstalled(c, r) ==
  /\ calls[c].pc = "inflight"
  /\ controllers[<<c, calls[c].attempt>>].aborted <=> isCancel(r)
  /\ LET run == responseChain(World, c, r, dispatched[c], <<>>)
     IN /\ Commit([run.w EXCEPT !.cs[c].pc = "responded", !.cs[c].resp = r])
        /\ last' = Op("respond", calls[c].configKey, {c}, -1, FALSE)
                    @@ [hooks |-> run.hooks]

NextInterceptors ==
  \/ \E pair \in {<<"request1", Undefined>>} :
       SetRequestInterceptor(pair[1], pair[2])
  \/ \E pair \in {<<"response1", "responseError1">>, <<"response2", Undefined>>} :
       SetResponseInterceptor(pair[1], pair[2])
  \/ \E options \in Options({"k", ""}, {0}, {0}, {"always"}, {FALSE}) : Request(options)
  \/ \E c \in Calls, r \in {"ok", "net", "cancel"} : RespondInstalled(c, r)
  \/ \E c \in Calls : Resume(c)

SpecInterceptors == Init /\ [][NextInterceptors]_vars

\* Retry configuration: a client constructed with any options.retry, and calls
\* to request() with any retry override.  A layer gives any subset of count,
\* delay and condition; the layer itself may be absent.
Only(opt) == CHOOSE v \in opt : TRUE
RetryLayer(count, delay, cond) ==
  [f \in {g \in {"count", "delay", "condition"} :
            \/ g = "count" /\ count # {}
            \/ g = "delay" /\ delay # {}
            \/ g = "condition" /\ cond # {}} |->
     IF f = "count" THEN Only(count) ELSE IF f = "delay" THEN Only(delay) ELSE Only(cond)]
RetryLayers ==
  {{}} \cup
  {{RetryLayer(count, delay, cond)} :
     count \in {{}, {1}, {MaxCount}}, delay \in {{}, {0}, {500}},
     cond \in {{}, {"always"}, {"never"}}}

InitMerge ==
  /\ \E retry \in RetryLayers :
       constructor([retry |-> retry, interceptors |-> {}])
  /\ args = <<>>
  /\ result = <<>>

\* request(method, url, { requestKey, retry }): the merge of the retry
\* configuration, then the call as in Request.
RequestRetry(key, retry) ==
  /\ issued < MaxCalls
  /\ LET retryConfig == requestRetryConfig(_retryConfig, retry)
         c == issued + 1
         w == request(World, c, [requestKey |-> key, count |-> retryConfig.count,
                                 delay |-> retryConfig.delay,
                                 cond |-> retryConfig.condition, reissue |-> FALSE])
     IN /\ Commit(w)
        /\ last' = Op("request", w.cs[c].configKey, {c}, -1, FALSE) @@ [retry |-> retry]

NextMerge == \E retry \in RetryLayers : RequestRetry("k", retry)

SpecMerge == InitMerge /\ [][NextMerge]_vars

\* Key generation: the configurations of two requests that differ only in
\* params._t, and their keys.
TValues == {Num(0), Num(1), Num(2), Str("x")}
BaseParams ==
  {JsUndefined, Obj(<<>>), Obj(<<Prop("a", Num(1))>>),
   Obj(<<Prop("a", Num(1)), Prop("b", Str("x"))>>),
   Obj(<<Prop("b", Str("x")), Prop("a", Num(1))>>)}
BaseConfigs ==
  [method : {"", "get", "POST"}, url : {"/u"}, params : BaseParams,
   data : {JsUndefined, Str("body"), Obj(<<Prop("a", Num(1))>>)},
   paramsSerializer : {Undefined, "paramsSerializer"}]

\* The parameters with _t = v added, as the first or as the last property.
withT(params, v) ==
  IF params.t = "object"
  THEN {Obj(<<Prop("_t", v)>> \o params.o), Obj(Append(params.o, Prop("_t", v)))}
  ELSE {Obj(<<Prop("_t", v)>>)}

InitGenerate ==
  /\ constructor(NoOptions)
  /\ \E base \in BaseConfigs, v \in TValues :
       \E a \in withT(base.params, v),
          b \in {base.params} \cup UNION {withT(base.params, u) : u \in TValues \ {v}} :
         args = <<[base EXCEPT !.params = a], [base EXCEPT !.params = b]>>
  /\ result = <<>>

GenerateRequestKey ==
  /\ args # <<>>
  /\ result = <<>>
  /\ result' = <<_generateRequestKey(args[1]), _generateRequestKey(args[2])>>
  /\ UNCHANGED <<lifecycle, last, client, args>>

NextGenerate == GenerateRequestKey

SpecGenerate == InitGenerate /\ [][NextGenerate]_vars

\* Serialization: two values, the second the first with its properties
\* inserted in another order (at any depth) or its items in another order,
\* and their strings.
Inner ==
  {Num(1), Num(2), Str("x"), JsNull, JsUndefined, Arr(<<>>), Arr(<<JsNull>>), Obj(<<>>),
   Obj(<<Prop("a", Num(1)), Prop("b", Num(2))>>),
   Obj(<<Prop("b", Num(2)), Prop("a", Num(1))>>)}
PropertyNames == {<<>>, <<"a">>, <<"b">>, <<"a", "b">>, <<"b", "a">>}
Arrays == {Arr(items) : items \in UNION {[1..n -> Inner] : n \in 0..MaxLen}}
Objects ==
  UNION {{Obj([i \in 1..Len(names) |-> Prop(names[i], values[i])]) :
            values \in [1..Len(names) -> Inner]} : names \in PropertyNames}

Perms(n) == {f \in [1..n -> 1..n] : \A i, j \in 1..n : f[i] = f[j] => i = j}

\* The values that differ from v in the insertion order of properties only.
RECURSIVE reorders(_)
reorders(v) ==
  CASE v.t = "object" ->
         {Obj([i \in 1..Len(v.o) |-> Prop(v.o[f[i]].key, g[i])]) :
            <<f, g>> \in {fg \in Perms(Len(v.o)) \X
                                 [1..Len(v.o) -> UNION {reorders(p.value) : p \in Range(v.o)}] :
                           \A i \in 1..Len(v.o) : fg[2][i] \in reorders(v.o[fg[1][i]].value)}}
    [] v.t = "array" ->
         {Arr(g) : g \in {h \in [1..Len(v.a) -> UNION {reorders(x) : x \in Range(v.a)}] :
                           \A i \in 1..Len(v.a) : h[i] \in reorders(v.a[i])}}
    [] OTHER -> {v}

\* The arrays that hold the items of v in another order.
permuted(v) ==
  IF v.t = "array" THEN {Arr([i \in 1..Len(v.a) |-> v.a[f[i]]]) : f \in Perms(Len(v.a))}
  ELSE {}

InitStringify ==
  /\ constructor(NoOptions)
  /\ \E x \in Arrays \cup Objects :
       \E y \in reorders(x) \cup permuted(x) : args = <<x, y>>
  /\ result = <<>>

StableStringify ==
  /\ args # <<>>
  /\ result = <<>>
  /\ result' = <<_stableStringify(args[1]), _stableStringify(args[2])>>
  /\ UNCHANGED <<lifecycle, last, client, args>>

NextStringify == StableStringify

SpecStringify == InitStringify /\ [][NextStringify]_vars

\* ------------------------------------------------------------------ claims

Issued == 1..issued
Done(c) == calls[c].pc = "done"
InFlight(c) == calls[c].pc = "inflight"
current(c) == <<c, calls[c].attempt>>
Rejected(kind, attempt) == [type |-> "rejected", kind |-> kind, attempt |-> attempt]
Resolved(attempt) == [type |-> "resolved", kind |-> "ok", attempt |-> attempt]

\* C1: the number of transport invocations made for a call never exceeds the
\* count of its resolved policy plus one, whatever other calls and
\* cancelRequest/cancelAllRequests do in between.
C1_InvocationsBounded ==
  \A c \in Calls : calls[c].invocations <= calls[c].count + 1

\* A call used every attempt of a policy with retries while another call and a
\* cancellation ran on the client.
C1_Witness ==
  \E c \in Issued :
    /\ Done(c)
    /\ calls[c].count = MaxCount
    /\ calls[c].invocations = MaxCount + 1
    /\ issued = MaxCalls

\* C2: every call that has settled performed at least one transport
\* invocation, whatever its resolved retry policy holds.
C2_FirstAttemptAlways ==
  \A c \in Issued : Done(c) => calls[c].invocations >= 1

\* C3: once an attempt of a call failed with a cancellation error, the call
\* makes no further transport invocation and rejects with that error, also
\* when attempts are left and the condition predicate accepts the error.
C3_CancelNeverRetried ==
  \A c \in Issued : \A i \in 1..Len(calls[c].errs) :
    calls[c].errs[i] = "cancel" =>
      /\ i = Len(calls[c].errs)
      /\ Done(c)
      /\ calls[c].invocations = i
      /\ calls[c].outcome = Rejected("cancel", i - 1)

\* A call whose policy would have retried the cancellation error was cancelled
\* on a retry attempt and stopped there.
C3_Witness ==
  \E c \in Issued :
    /\ Done(c)
    /\ calls[c].cond = "always"
    /\ calls[c].count = MaxCount
    /\ calls[c].errs = <<"e503", "cancel">>
    /\ calls[c].invocations = 2

\* C4: when a call is issued right after another call with the same explicit
\* key that is still in flight, the first call rejects with a cancellation
\* error after its single invocation, and nothing the first call does aborts a
\* handle of the second, which settles with what the transport gave it.
C4_BackToBack ==
  \A c2 \in Issued :
    \A c1 \in calls[c2].btb :
         /\ controllers[<<c1, 0>>].aborted
         /\ controllers[<<c1, 0>>].byCall = {c2}
         /\ calls[c1].invocations = 1
         /\ Done(c1) => calls[c1].outcome = Rejected("cancel", 0)
         /\ \A a \in Attempts : controllers[<<c2, a>>].byCall # {c1}
         /\ (Done(c2) /\ \A a \in Attempts : ~controllers[<<c2, a>>].aborted)
              => calls[c2].outcome.kind \in {"ok"} \cup (ErrKinds \ {"cancel"})

\* Both calls of such a pair have settled: the first cancelled, the second
\* with the transport's result.
C4_Witness ==
  \E c2 \in Issued : \E c1 \in calls[c2].btb :
    /\ calls[c2].requestKey = "k"
    /\ Done(c1)
    /\ calls[c1].outcome = Rejected("cancel", 0)
    /\ calls[c1].count = 1
    /\ Done(c2)
    /\ calls[c2].outcome = Resolved(0)

\* C5: under one key at most one transport invocation whose handle has not
\* been aborted is in flight.
C5_SingleWinner ==
  \A c1, c2 \in Issued :
    (/\ c1 # c2
     /\ calls[c1].configKey = calls[c2].configKey
     /\ InFlight(c1) /\ InFlight(c2))
    => controllers[current(c1)].aborted \/ controllers[current(c2)].aborted

\* C6: once every call issued on the client has settled, the registry holds
\* no entry.
C6_NoLeak ==
  (\A c \in Issued : Done(c)) => _abortControllers = <<>>

\* The handles a step aborts.
NewlyAborted == {h \in Handles : controllers'[h].aborted /\ ~controllers[h].aborted}

\* C7: cancelAllRequests on a registry with N entries aborts exactly N
\* handles, returns N and leaves the registry empty, also when an abort
\* listener of one of the handles issues a new call under the same key.
C7_CancelAllExact ==
  [][last'.op = "cancelAllRequests" =>
       /\ _abortControllers' = <<>>
       /\ last'.ret = Len(_abortControllers)
       /\ Cardinality(NewlyAborted) = Len(_abortControllers)]_vars

\* The entry a key has in the registry, as a set of handles.
Entries(m, key) == {m[i].h : i \in {j \in 1..Len(m) : m[j].key = key}}

\* C8: a call that registers its first handle under a key that has an entry
\* aborts the handle of that entry, which was not aborted before, and after
\* every registration the registry maps the key to the new handle only, not
\* aborted.
C8_Supersede ==
  [][\A c \in Calls :
       (/\ last'.call = {c}
        /\ last'.op \in {"request", "resume"}
        /\ calls'[c].pc = "inflight")
       => LET key == calls'[c].configKey
              old == Entries(_abortControllers, key)
          IN /\ Entries(_abortControllers', key) = {<<c, calls'[c].attempt>>}
             /\ ~controllers'[<<c, calls'[c].attempt>>].aborted
             /\ Cardinality({i \in 1..Len(_abortControllers') :
                               _abortControllers'[i].key = key}) = 1
             /\ last'.op = "request" =>
                  \A h \in old :
                    /\ ~controllers[h].aborted
                    /\ controllers'[h].aborted
                    /\ controllers'[h].byOp = "register"
                    /\ controllers'[h].byCall = {c}]_vars

\* A handle was superseded: it is aborted by the registration of another
\* call, whose handle is now the only entry of the key.
C8_Witness ==
  \E c1, c2 \in Issued :
    /\ c1 # c2
    /\ calls[c1].configKey = calls[c2].configKey
    /\ controllers[<<c1, 0>>].aborted
    /\ controllers[<<c1, 0>>].byOp = "register"
    /\ controllers[<<c1, 0>>].byCall = {c2}
    /\ Entries(_abortControllers, calls[c2].configKey) = {<<c2, 0>>}
    /\ ~controllers[<<c2, 0>>].aborted

\* C9: registering, cancelling or cleaning up under one key leaves the entry,
\* the handles and the calls of every other key unchanged.
C9_OtherKeysUntouched ==
  [][last'.op # "cancelAllRequests" =>
       \A key \in Keys \ {last'.key} :
         /\ Entries(_abortControllers', key) = Entries(_abortControllers, key)
         /\ \A c \in Issued :
              calls[c].configKey = key =>
                /\ calls'[c] = calls[c]
                /\ \A a \in Attempts : controllers'[<<c, a>>] = controllers[<<c, a>>]]_vars

\* Two calls under two distinct symbols were in flight together; one was
\* cancelled by its key and the other is still registered and not aborted.
C9_Witness ==
  \E c1, c2 \in Issued :
    /\ calls[c1].requestKey = "sym1"
    /\ calls[c2].requestKey = "sym2"
    /\ controllers[<<c1, 0>>].byOp = "cancelRequest"
    /\ InFlight(c2)
    /\ Entries(_abortControllers, "sym2") = {current(c2)}
    /\ ~controllers[current(c2)].aborted

\* The index of the first error of a call for which its condition predicate
\* returns false, 0 if there is none.
FirstRefusal(call) ==
  LET refused == {j \in 1..Len(call.errs) : ~condition(call.cond, call.errs[j])}
  IN IF refused = {} THEN 0 ELSE CHOOSE j \in refused : \A i \in refused : j <= i

\* C10: a call whose invocations all failed with errors other than
\* cancellation made count + 1 invocations if its predicate accepted every
\* error, and otherwise stopped at the first error the predicate refused,
\* which is the error it rejects with.
C10_ExactInvocations ==
  \A c \in Issued :
    (/\ Done(c)
     /\ calls[c].outcome.type = "rejected"
     /\ \A i \in 1..Len(calls[c].errs) : ~isCancel(calls[c].errs[i]))
    => LET j == FirstRefusal(calls[c])
       IN IF j = 0
          THEN calls[c].invocations = calls[c].count + 1
          ELSE /\ calls[c].invocations = j
               /\ calls[c].outcome = Rejected(calls[c].errs[j], j - 1)

\* Count 2 and a predicate that returns false for the error of attempt 1: two
\* invocations.
C10_Witness ==
  \E c \in Issued :
    /\ Done(c)
    /\ calls[c].count = 2
    /\ calls[c].cond = "default"
    /\ calls[c].errs = <<"e503", "e404">>
    /\ calls[c].invocations = 2

\* C11: when an attempt of a call succeeds, the call resolves with the result
\* of that attempt and makes no further invocation: a call resolved at attempt
\* i made exactly i + 1 invocations.
C11_SuccessStops ==
  [][\A c \in Calls :
       /\ (calls[c].pc = "responded" /\ calls[c].resp = "ok" /\ calls'[c] # calls[c])
            => /\ calls'[c].pc = "done"
               /\ calls'[c].outcome = Resolved(calls[c].attempt)
               /\ calls'[c].invocations = calls[c].attempt + 1
       /\ calls[c].pc = "done" => calls'[c] = calls[c]
       /\ (calls'[c].pc = "done" /\ calls'[c].outcome.type = "resolved")
            => /\ calls'[c].invocations = calls'[c].outcome.attempt + 1
               /\ Len(calls'[c].errs) = calls'[c].outcome.attempt]_vars

\* Count 1, delay 0, the default condition, a 503 then a success: the call
\* resolves with the result of attempt 1 after two invocations.
C11_Witness ==
  \E c \in Issued :
    /\ Done(c)
    /\ calls[c].count = 1
    /\ calls[c].delay = 0
    /\ calls[c].cond = "default"
    /\ calls[c].errs = <<"e503">>
    /\ calls[c].outcome = Resolved(1)
    /\ calls[c].invocations = 2

\* C12: a call that ends in failure rejects with the error of its last
\* transport invocation; it never rejects with a value that is not the error
\* of one of its attempts, and a call that resolved did so on the success of
\* its last invocation.
C12_LastErrorDelivered ==
  \A c \in Issued :
    Done(c) =>
      IF calls[c].outcome.type = "rejected"
      THEN /\ calls[c].errs # <<>>
           /\ Len(calls[c].errs) = calls[c].invocations
           /\ calls[c].outcome =
                Rejected(calls[c].errs[Len(calls[c].errs)], Len(calls[c].errs) - 1)
      ELSE /\ calls[c].outcome.type = "resolved"
           /\ Len(calls[c].errs) = calls[c].invocations - 1

\* C13: cancelRequest(key) on a registry with an entry for key aborts the
\* handle of the entry, removes the entry and returns true; without an entry
\* it returns false and leaves the registry and every handle unchanged.
C13_CancelRequest ==
  [][last'.op = "cancelRequest" =>
       IF Entries(_abortControllers, last'.key) # {}
       THEN /\ last'.ok
            /\ \A h \in Entries(_abortControllers, last'.key) : controllers'[h].aborted
            /\ Entries(_abortControllers', last'.key) = {}
       ELSE /\ ~last'.ok
            /\ _abortControllers' = _abortControllers
            /\ controllers' = controllers]_vars

\* cancelRequest returned true: the handle it found is aborted by it, while
\* its call is still in flight, and the key has no entry.
C13_Witness ==
  /\ last.op = "cancelRequest"
  /\ last.ok
  /\ Entries(_abortControllers, last.key) = {}
  /\ \E c \in Issued :
       /\ InFlight(c)
       /\ calls[c].configKey = last.key
       /\ controllers[current(c)].byOp = "cancelRequest"

\* C14: two request configurations that differ only in params._t (present
\* with any value in one; absent or with another value in the other, also when
\* _t is the only parameter) get the same key from _generateRequestKey.
C14_TimestampIgnored ==
  result # <<>> => result[1] = result[2]

\* Structural equality of two values: the same properties with structurally
\* equal values whatever the insertion order, the same items in the same order.
RECURSIVE structurallyEqual(_, _)
structurallyEqual(x, y) ==
  /\ x.t = y.t
  /\ CASE x.t = "object" ->
            /\ {p.key : p \in Range(x.o)} = {p.key : p \in Range(y.o)}
            /\ \A p \in Range(x.o) : structurallyEqual(p.value, get(y, p.key))
       [] x.t = "array" ->
            /\ Len(x.a) = Len(y.a)
            /\ \A i \in 1..Len(x.a) : structurallyEqual(x.a[i], y.a[i])
       [] x.t = "number" -> x.n = y.n
       [] x.t = "string" -> x.s = y.s
       [] OTHER -> TRUE

\* Two arrays that hold the same items, in an order that differs somewhere.
Reordered(x, y) ==
  /\ x.t = "array" /\ y.t = "array"
  /\ y \in permuted(x)
  /\ \E i \in 1..Len(x.a) : ~structurallyEqual(x.a[i], y.a[i])

\* C15 as stated: _stableStringify returns the same string for structurally
\* equal objects whose keys were inserted in different orders at any depth, and
\* different strings for two arrays holding the same items in a different
\* order.
C15_StableStringify ==
  result # <<>> =>
    /\ structurallyEqual(args[1], args[2]) => result[1] = result[2]
    /\ Reordered(args[1], args[2]) => result[1] # result[2]

\* C15 amended: the same string for structurally equal objects whatever the
\* insertion order; different strings for two arrays of numbers and strings
\* that hold the same items in a different order.
C15_StableStringifyScalars ==
  result # <<>> =>
    /\ structurallyEqual(args[1], args[2]) => result[1] = result[2]
    /\ ( /\ Reordered(args[1], args[2])
         /\ \A v \in Range(args[1].a) : v.t \in {"number", "string"} )
         => result[1] # result[2]

\* Two arrays of a number and a string in the two orders, serialized to two
\* strings.
C15_Witness ==
  /\ result # <<>>
  /\ Reordered(args[1], args[2])
  /\ {v.t : v \in Range(args[1].a)} = {"number", "string"}
  /\ result[1] # result[2]

\* The value a layer gives to a field, as a set: empty when the layer is
\* absent or does not hold the field.
Given(layer, field) ==
  {l[field] : l \in {x \in layer : field \in DOMAIN x}}

\* The per-call value if given, else the instance value if given, else the
\* default.
Precedence(field, default) ==
  IF Given(last.retry, field) # {} THEN Given(last.retry, field)
  ELSE IF Given(clientOptions.retry, field) # {} THEN Given(clientOptions.retry, field)
  ELSE {default}

\* C16: the retry policy a call runs with is the shallow merge of the default,
\* the client's retry options and the call's retry override: each of count,
\* delay and condition is the per-call value if given, else the instance
\* value if given, else the default (count 0, delay 1000, the default
\* condition).
C16_MergePrecedence ==
  last.op = "request" =>
    \A c \in last.call :
      /\ {calls[c].count} = Precedence("count", 0)
      /\ {calls[c].delay} = Precedence("delay", 1000)
      /\ {calls[c].cond} = Precedence("condition", "default")

\* A call whose override gives only count, on a client whose options give
\* another count and a delay: count from the call, delay from the client, the
\* default condition.
C16_Witness ==
  /\ last.op = "request"
  /\ \E inst \in clientOptions.retry, over \in last.retry, c \in last.call :
       /\ DOMAIN inst = {"count", "delay"}
       /\ DOMAIN over = {"count"}
       /\ inst.count # over.count
       /\ calls[c].count = over.count
       /\ calls[c].delay = inst.delay
       /\ calls[c].cond = "default"

\* The handlers installed in axios on one side: the slots not ejected.
InstalledSlots(mgr) == {i \in DOMAIN mgr : mgr[i] # {}}
Installed(mgr) == UNION {mgr[i] : i \in InstalledSlots(mgr)}
Supplied(hook, default) == IF hook # Undefined THEN hook ELSE default
OnePairEach(mgrs) ==
  /\ Cardinality(InstalledSlots(mgrs.request)) = 1
  /\ Cardinality(InstalledSlots(mgrs.response)) = 1

\* C17: after construction and after any sequence of setRequestInterceptor and
\* setResponseInterceptor calls exactly one request hook pair and one response
\* hook pair are installed in axios, they are the pairs supplied last (the
\* defaults for slots not supplied), and each completed response calls the
\* response hook of its outcome exactly once.
C17_OnePairInstalled ==
  /\ OnePairEach(interceptors)
  /\ Installed(interceptors.request) =
       {[fulfilled |-> "DEFAULT.request", rejected |-> "DEFAULT.requestError"]}
  /\ Installed(interceptors.response) =
       {[cleanup |-> TRUE, fulfilled |-> "DEFAULT.response",
         rejected |-> "DEFAULT.responseError"]}
  /\ [][/\ OnePairEach(interceptors')
        /\ IF last'.op = "setRequestInterceptor"
           THEN /\ Installed(interceptors'.request) =
                     {[fulfilled |-> Supplied(last'.interceptor, "DEFAULT.request"),
                       rejected |-> Supplied(last'.errorInterceptor, "DEFAULT.requestError")]}
                /\ Installed(interceptors'.response) = Installed(interceptors.response)
           ELSE IF last'.op = "setResponseInterceptor"
           THEN /\ Installed(interceptors'.response) =
                     {[cleanup |-> TRUE,
                       fulfilled |-> Supplied(last'.interceptor, "DEFAULT.response"),
                       rejected |-> Supplied(last'.errorInterceptor, "DEFAULT.responseError")]}
                /\ Installed(interceptors'.request) = Installed(interceptors.request)
           ELSE interceptors' = interceptors
        /\ last'.op = "respond" =>
             \A c \in last'.call :
               /\ Len(last'.hooks) = 1
               /\ \A h \in Installed(dispatched[c]) :
                    last'.hooks[1].hook =
                      IF calls'[c].resp = "ok" THEN h.fulfilled ELSE h.rejected
               /\ dispatched[c] = interceptors.response =>
                    last'.hooks[1].hook =
                      IF calls'[c].resp = "ok"
                      THEN _getInterceptors(_interceptorConfig).response
                      ELSE _getInterceptors(_interceptorConfig).responseError]_vars

\* The response hooks were replaced twice; a call dispatched afterwards
\* succeeded and the hook supplied last, and nothing else, was called.
C17_Witness ==
  /\ last.op = "respond"
  /\ Len(interceptors.response) >= 3
  /\ \E h \in Installed(interceptors.response) : h.fulfilled = "response2"
  /\ last.hooks = <<[hook |-> "response2", entry |-> FALSE]>>

\* C18: on the success path and on the error path the registry entry of the
\* key saved in the call's configuration is removed before the caller's
\* response hook is called, also after setResponseInterceptor replaced the
\* hooks.
C18_CleanupBeforeHook ==
  [][last'.op = "respond" =>
       /\ last'.hooks # <<>>
       /\ \A i \in 1..Len(last'.hooks) : ~last'.hooks[i].entry]_vars

\* C19: while a transport invocation of a call is in flight and its handle is
\* not aborted, the registry maps the call's key to exactly that handle (so
\* cancelRequest(key) returns true and aborts that invocation), whatever
\* happens in between, the late settlement of an earlier call superseded
\* under the same key included.
C19_RegisteredWhileInFlight ==
  \A c \in Issued :
    (InFlight(c) /\ ~controllers[current(c)].aborted)
      => Entries(_abortControllers, calls[c].configKey) = {current(c)}

\* C20: once cancelAllRequests() has returned, or cancelRequest(key) for the
\* key of a call, no call issued before it makes another transport
\* invocation, a call suspended in its retry delay included; stated for the
\* step that follows the return.
C20_NoInvocationAfterCancel ==
  [][\A c \in Issued :
       \/ last.op = "cancelAllRequests"
       \/ last.op = "cancelRequest" /\ last.key = calls[c].configKey
       => calls'[c].invocations = calls[c].invocations]_vars

\* C21: every call to request() eventually settles, resolved or rejected,
\* when every transport invocation eventually completes or is aborted and
\* every retry delay elapses, whatever concurrent calls and cancellations do.
C21_EventuallySettles ==
  \A c \in Calls : (calls[c].pc # "idle") ~> Done(c)

\* Two calls under one key have settled: one that slept through a retry delay
\* and made a second invocation, one rejected with a cancellation.
C21_Witness ==
  \E c1, c2 \in Issued :
    /\ c1 # c2
    /\ Done(c1) /\ Done(c2)
    /\ calls[c1].delay > 0
    /\ calls[c1].invocations >= 2
    /\ calls[c2].outcome = Rejected("cancel", 0)

====
